---------------------------- MODULE Spec2Model ----------------------------
(***************************************************************************)
(* weewx-climate: the staleness-gated refresh of climatological data.      *)
(*                                                                         *)
(* Two services of the repository decide when to download:                 *)
(*   - ACIS    (bin/user/climate/acis.py): one station, worker fetch_data  *)
(*   - Climate (bin/user/climate/climate.py): one entry of self.stations   *)
(*     per configured station, worker <downloader>.fetch_station_data      *)
(* A run of the model is a run of one of them (variable service).          *)
(*                                                                         *)
(* Text is a sequence of one-character strings, None is the empty          *)
(* sequence (Python tests both with "if x"), a float is its number of      *)
(* tenths.                                                                 *)
(***************************************************************************)
EXTENDS Integers, Sequences, FiniteSets, Bags, TLC

VARIABLES
    service,        \* which StdService the engine loaded: "ACIS" or "Climate"
    now,            \* time.time()
    h,              \* position of the engine thread inside new_archive_record
    threads,        \* the Thread objects that exist (a bag); the one a service
                    \* attribute refers to (ACIS.thread, Climate.stations[s]
                    \* ['thread']) has tracked = TRUE
    launch_time,    \* ACIS.launch_time
    stations,       \* Climate.stations[station_id]['launch_time']
    table,          \* ACIS: committed rows of the data table
    download_date,  \* ACIS: committed value of <table>_metadata 'download_date'
    last_commit,    \* ACIS: the reply and the date of the last committed refresh
    last_download,  \* Climate: committed station_metadata.last_download, by station
    refreshed,      \* history: the latest current_date a refresh has committed
                    \* with, by station
    reply,          \* the results (json.loads of the body) a task normalizes
    gen,            \* the generator gen_acis_records(reply): the number of records
                    \* it has yielded, the records, its state
    climate_data,   \* the committed rows of the table the resolver reads
    vt,             \* what the last call returned, when it was _do_query
    db,             \* the database setup works on: schema objects, last log line
    agg             \* what the last call returned, when it was get_aggregate

engine_vars == <<service, now, h, threads, launch_time, stations, table,
                 download_date, last_commit, last_download, refreshed>>

store_vars == <<reply, gen, climate_data, vt, db, agg>>

vars == <<engine_vars, store_vars>>

---------------------------------------------------------------------------
(* Bounds of the model *)

MaxTasks == 2
MaxTime == 2

---------------------------------------------------------------------------
(* Python values *)

None == <<>>
NoTime == -1

\* How long to wait before launching a new thread if one is already running
\* (seconds; the configured value, 600 by default, scaled to clock ticks).
max_wait == 2

\* time.time() counts seconds since 1970: far above any max_wait.
StartTime == max_wait + 1

Digits == <<"0", "1", "2", "3", "4", "5", "6", "7", "8", "9">>

IsDigit(c) == \E i \in 1..10 : Digits[i] = c

DigitVal(c) == (CHOOSE i \in 1..10 : Digits[i] = c) - 1

\* ord(c) for the characters of an ISO date
Ord(c) == IF c = "-" THEN 45 ELSE 48 + DigitVal(c)

\* Python's str < str: by code point, a proper prefix is smaller
RECURSIVE StrLess(_, _)
StrLess(a, b) ==
    IF b = <<>> THEN FALSE
    ELSE IF a = <<>> THEN TRUE
    ELSE IF Ord(Head(a)) # Ord(Head(b)) THEN Ord(Head(a)) < Ord(Head(b))
    ELSE StrLess(Tail(a), Tail(b))

StrGE(a, b) == ~StrLess(a, b)

\* '%0<w>d' % n
RECURSIVE ZeroPad(_, _)
ZeroPad(n, w) ==
    IF w = 0 THEN <<>> ELSE Append(ZeroPad(n \div 10, w - 1), Digits[(n % 10) + 1])

\* '%04d-%02d-%02d' % (year, month, day)
FormatDate(d) == ZeroPad(d[1], 4) \o <<"-">> \o ZeroPad(d[2], 2) \o <<"-">> \o ZeroPad(d[3], 2)

\* datetime.date comparison
DateLE(a, b) ==
    \/ a[1] < b[1]
    \/ a[1] = b[1] /\ a[2] < b[2]
    \/ a[1] = b[1] /\ a[2] = b[2] /\ a[3] <= b[3]

\* The calendar dates an archive record can carry
Dates == {<<2026, 9, 30>>, <<2026, 10, 1>>}

\* The first clock value of the second day
Midnight == StartTime + 1

\* datetime.date.today(), which is also the date of the dateTime of an
\* archive record: the engine hands a record over as soon as it is complete.
today == IF now < Midnight THEN <<2026, 9, 30>> ELSE <<2026, 10, 1>>

\* datetime.date.isoformat(): 'YYYY-MM-DD', formatted once for each date
IsoFormats == [d \in Dates |-> FormatDate(d)]

isoformat(d) == IsoFormats[d]

---------------------------------------------------------------------------
(* The normalizer: acis.gen_acis_records and the conversions it calls *)

IsSpace(c) == c = " "

RECURSIVE LStrip(_)
LStrip(s) == IF s # <<>> /\ IsSpace(Head(s)) THEN LStrip(Tail(s)) ELSE s

RECURSIVE RStrip(_)
RStrip(s) ==
    IF s # <<>> /\ IsSpace(s[Len(s)]) THEN RStrip(SubSeq(s, 1, Len(s) - 1)) ELSE s

\* str.strip()
Strip(s) == LStrip(RStrip(s))

UpperChar(c) ==
    CASE c = "m" -> "M"
      [] c = "t" -> "T"
      [] c = "n" -> "N"
      [] c = "o" -> "O"
      [] c = "e" -> "E"
      [] OTHER -> c

\* str.upper()
Upper(s) == [i \in 1..Len(s) |-> UpperChar(s[i])]

AllDigits(s) == s # <<>> /\ \A i \in 1..Len(s) : IsDigit(s[i])

\* int() of a string of digits
RECURSIVE DigitsVal(_)
DigitsVal(s) ==
    IF s = <<>> THEN 0 ELSE 10 * DigitsVal(SubSeq(s, 1, Len(s) - 1)) + DigitVal(s[Len(s)])

\* Index of the first c in s, or 0
FirstIndex(s, c) ==
    IF \E i \in 1..Len(s) : s[i] = c
    THEN CHOOSE i \in 1..Len(s) : s[i] = c /\ \A j \in 1..(i - 1) : s[j] # c
    ELSE 0

\* The text is 'none' in any letter case (weeutil.to_float, weeutil.to_int)
IsNoneText(s) == Upper(s) = <<"N", "O", "N", "E">>

\* float(x) accepts (of the texts the model feeds it) surrounding blanks and
\* digits with at most one '.' and one fractional digit; anything else is a
\* ValueError.
FloatOk(x) ==
    LET s == Strip(x)
        p == FirstIndex(s, ".")
    IN  IF p = 0 THEN AllDigits(s)
        ELSE /\ AllDigits(SubSeq(s, 1, p - 1))
             /\ Len(s) = p + 1
             /\ IsDigit(s[p + 1])

\* The float, in tenths
FloatVal(x) ==
    LET s == Strip(x)
        p == FirstIndex(s, ".")
    IN  IF p = 0 THEN 10 * DigitsVal(s)
        ELSE 10 * DigitsVal(SubSeq(s, 1, p - 1)) + DigitVal(s[p + 1])

\* weeutil.to_float: None for 'none', else float(x)
to_float_raises(x) == ~IsNoneText(x) /\ ~FloatOk(x)

to_float(x) == IF IsNoneText(x) THEN None ELSE <<FloatVal(x)>>

\* weeutil.to_int: None for 'none', else int(x)
to_int_raises(x) == ~IsNoneText(x) /\ ~AllDigits(Strip(x))

to_int(x) == IF IsNoneText(x) THEN None ELSE <<DigitsVal(Strip(x))>>

\* str.split('-')
RECURSIVE Split(_)
Split(s) ==
    LET p == FirstIndex(s, "-")
    IN  IF p = 0 THEN <<s>>
        ELSE <<SubSeq(s, 1, p - 1)>> \o Split(SubSeq(s, p + 1, Len(s)))

\* A variant of ordering that lists the pairs by reduction, not in the order
\* of the elems of acis_struct: C17 fails under it.
ordering_by_reduction ==
    << <<"high", "avg">>, <<"low", "avg">>, <<"high", "max">>,
       <<"low", "max">>, <<"high", "min">>, <<"low", "min">> >>

\* The order the results appear in, set by acis_struct()
ordering == << <<"high", "avg">>, <<"high", "max">>, <<"high", "min">>,
               <<"low", "avg">>, <<"low", "max">>, <<"low", "min">> >>

\* The elems of the query, as (name, reduce)
acis_struct == << <<"maxt", "mean">>, <<"maxt", "max">>, <<"maxt", "min">>,
                  <<"mint", "mean">>, <<"mint", "max">>, <<"mint", "min">> >>

Min(a, b) == IF a < b THEN a ELSE b

\* The (stat_tuple, day_tuple) pairs the two loops of gen_acis_records visit,
\* in order: zip() stops at the shorter of ordering and results['smry'].
RECURSIVE DayTuplesFrom(_, _)
DayTuplesFrom(smry, g) ==
    IF g > Min(Len(ordering), Len(smry)) THEN <<>>
    ELSE [j \in 1..Len(smry[g]) |-> [stat_tuple |-> ordering[g], day_tuple |-> smry[g][j]]]
         \o DayTuplesFrom(smry, g + 1)

DayTuples(results) == DayTuplesFrom(results.smry, 1)

\* results['meta']['name'] raises KeyError when the reply has no 'meta'
\* (the provider's {"error": ...} reply)
gen_header_raises(results) == results.meta = None

\* One pass of the inner loop raises: to_float or to_int does, or the date
\* does not unpack into three parts.
gen_item_raises(item) ==
    LET value_text == item.day_tuple[1]
        parts == Split(item.day_tuple[2])
    IN  \/ Upper(Strip(value_text)) # <<"M">> /\ to_float_raises(value_text)
        \/ Len(parts) # 3
        \/ \E i \in 1..Len(parts) : to_int_raises(parts[i])

\* A variant of gen_item_record without the test of the reduction: the year
\* of the date stays in the record of an average. C15 fails under it.
gen_item_record_keeps_year(item) ==
    LET value_text == item.day_tuple[1]
        parts == Split(item.day_tuple[2])
    IN  [month     |-> to_int(parts[2]),
         day       |-> to_int(parts[3]),
         usUnits   |-> 1,
         obsType   |-> "outTemp",
         stat      |-> item.stat_tuple[1],
         reduction |-> item.stat_tuple[2],
         value     |-> IF Upper(Strip(value_text)) = <<"M">> THEN None
                       ELSE to_float(value_text),
         year      |-> to_int(parts[1])]

\* The tuple one pass of the inner loop yields, from its third element on
\* (rec[2:], the columns of the data table)
gen_item_record(item) ==
    LET value_text == item.day_tuple[1]
        parts == Split(item.day_tuple[2])
        stat == item.stat_tuple[1]
        reduction == item.stat_tuple[2]
    IN  [month     |-> to_int(parts[2]),
         day       |-> to_int(parts[3]),
         usUnits   |-> 1,
         obsType   |-> "outTemp",
         stat      |-> stat,
         reduction |-> reduction,
         value     |-> IF Upper(Strip(value_text)) = <<"M">> THEN None
                       ELSE to_float(value_text),
         year      |-> IF reduction = "avg" THEN None ELSE to_int(parts[1])]

\* The generator, asked for its (k+1)-th record, raises
gen_acis_records_raises(results, k) ==
    \/ k = 0 /\ gen_header_raises(results)
    \/ k < Len(DayTuples(results)) /\ gen_item_raises(DayTuples(results)[k + 1])

\* The generator is exhausted after k records
gen_acis_records_done(results, k) ==
    /\ ~gen_header_raises(results)
    /\ k = Len(DayTuples(results))

\* The first k records of the generator
gen_acis_records(results, k) ==
    LET items == DayTuples(results)
    IN  [j \in 1..k |-> gen_item_record(items[j])]

---------------------------------------------------------------------------
(* Replies of the provider (json.loads of the body) the model draws from *)

\* one entry of a statistic group: (value_text, date_text)
Entry(value_text, date_text) == <<value_text, date_text>>

Meta == <<[name |-> "HOOD RIVER EXPERIMENT STN", state |-> "OR"]>>

\* average high and record high of January 1st
RespA == [meta |-> Meta,
          smry |-> << << Entry(<<"3", "8", ".", "5">>,
                           <<"1", "9", "0", "0", "-", "0", "1", "-", "0", "1">>) >>,
                      << Entry(<<"5", "8", ".", "0">>,
                           <<"1", "9", "9", "7", "-", "0", "1", "-", "0", "1">>) >> >>]

\* a later reply: the average has moved
RespB == [meta |-> Meta,
          smry |-> << << Entry(<<"3", "9">>,
                           <<"1", "9", "0", "0", "-", "0", "1", "-", "0", "1">>) >> >>]

\* a missing value, then a trace amount
RespT == [meta |-> Meta,
          smry |-> << << Entry(<<" ", "m">>,
                           <<"1", "9", "0", "0", "-", "0", "1", "-", "0", "1">>),
                         Entry(<<"T">>,
                           <<"1", "9", "0", "0", "-", "0", "1", "-", "0", "2">>) >> >>]

\* {"error": "..."}: neither 'meta' nor 'smry'
RespError == [meta |-> None, smry |-> <<>>]

\* a group that carries January 1st twice
RespDup == [meta |-> Meta,
            smry |-> << << Entry(<<"3", "8", ".", "5">>,
                             <<"1", "9", "0", "0", "-", "0", "1", "-", "0", "1">>),
                           Entry(<<"3", "9">>,
                             <<"1", "9", "0", "1", "-", "0", "1", "-", "0", "1">>) >> >>]

Responses == <<RespA, RespB, RespT, RespError, RespDup>>

\* What the generator does when it is asked for its (k+1)-th record, worked
\* out once for each reply
Raises ==
    [r \in DOMAIN Responses |->
        [k \in 0..Len(DayTuples(Responses[r])) |->
            gen_acis_records_raises(Responses[r], k)]]

Done ==
    [r \in DOMAIN Responses |->
        [k \in 0..Len(DayTuples(Responses[r])) |->
            gen_acis_records_done(Responses[r], k)]]

---------------------------------------------------------------------------
(* State *)

\* The stations of the configuration: ACIS has its one station_id, Climate
\* one section per station, visited in the order of the configuration.
station_ids == IF service = "ACIS" THEN <<"A">> ELSE <<"A", "B">>

AllStations == {"A", "B"}

Idle == [pc |-> "idle", current_date |-> None, i |-> 0]

NoCommit == [results |-> 0, current_date |-> None]

\* No database yet: weedb.create has not run
NoDatabase == [exists |-> FALSE, tables |-> {}, indexes |-> {}, metadata |-> {},
               log |-> None, error |-> None]

\* The last call was no query
NoResult == [params |-> None, raised |-> FALSE,
             value |-> None, unit |-> None, group |-> None]

\* The last call was no aggregation
NoAggregate == [call |-> None, raised |-> None, queried |-> FALSE,
                value |-> None, unit |-> None, group |-> None]

\* The store and the resolver at rest: no reply under normalization, no
\* query made
StoreAtRest ==
    /\ reply = RespError
    /\ gen = [k |-> 0, st |-> "idle", records |-> <<>>]
    /\ climate_data = <<>>
    /\ vt = NoResult
    /\ db = NoDatabase
    /\ agg = NoAggregate

\* ACIS.__init__ binds new_archive_record. Climate.__init__ calls fetch_data
\* for each station with datetime.date.today(), then binds.
Init ==
    /\ StoreAtRest
    /\ service \in {"ACIS", "Climate"}
    /\ now = StartTime
    /\ h = IF service = "ACIS" THEN Idle
           ELSE [pc |-> "check", current_date |-> today, i |-> 1]
    /\ threads = EmptyBag
    /\ launch_time = NoTime
    /\ stations = [s \in AllStations |-> [launch_time |-> NoTime]]
    /\ table = <<>>
    /\ download_date = None
    /\ last_commit = NoCommit
    /\ last_download = [s \in AllStations |-> None]
    /\ refreshed = [s \in AllStations |-> None]

Objects == BagToSet(threads)

\* A variant of is_alive that answers for the object instead of its run():
\* true of every Thread the service still refers to. C10 fails under it.
is_alive_of_any_object(z) == TRUE

\* Thread.is_alive(): started and run() has not ended, normally or not
Running == {"fetching", "tx", "marked"}

is_alive(z) == z.st \in Running

\* A variant of Tracked for a service with one thread attribute for all its
\* stations: C11 fails under it.
Tracked_of_any_station(s) == {z \in Objects : z.tracked}

\* The Thread object the service refers to for a station, if any (a set of
\* at most one)
Tracked(s) == {z \in Objects : z.tracked /\ z.station_id = s}

\* The number of tasks in flight for a station
InFlight(s) ==
    LET alive == {z \in Objects : is_alive(z) /\ z.station_id = s}
    IN  BagCardinality([z \in alive |-> threads[z]])

\* SQLite's write lock is held by the connection of a task
Locked == \E z \in Objects : z.st \in {"tx", "marked"}

Put(z) == SetToBag({z})

\* threading.Thread(target=..., args=(..., station_id, current_date)).start(),
\* assigned to the service's attribute
Started(s, d) ==
    [st |-> "fetching", station_id |-> s, current_date |-> d, results |-> 0, k |-> 0,
     tracked |-> TRUE]

\* The Thread objects left when the service's reference for station s is
\* overwritten: a thread that has ended goes with its last reference, a
\* running one stays, unreferenced.
Dropped(s) ==
    IF Tracked(s) = {} THEN threads
    ELSE LET z == CHOOSE z \in Tracked(s) : TRUE
         IN  IF is_alive(z) THEN (threads (-) Put(z)) (+) Put([z EXCEPT !.tracked = FALSE])
             ELSE threads (-) Put(z)

\* The Thread objects once run() of z has ended: how it ended can be seen
\* for as long as the service refers to the object.
Ended(z, how) ==
    IF z.tracked
    THEN (threads (-) Put(z)) (+)
         Put([st |-> how, station_id |-> z.station_id, current_date |-> None,
              results |-> 0, k |-> 0, tracked |-> TRUE])
    ELSE threads (-) Put(z)

\* The Thread objects once z has gone on to w
Step(z, w) == (threads (-) Put(z)) (+) Put(w)

\* The later of a date on record (or None) and the date d
Latest(on_record, d) == IF on_record = None \/ DateLE(on_record, d) THEN d ELSE on_record

\* The engine thread goes on to the next station of the loop, or returns
NextStation ==
    IF h.i < Len(station_ids) THEN [h EXCEPT !.pc = "check", !.i = h.i + 1] ELSE Idle

---------------------------------------------------------------------------
(* The engine thread *)

\* time.time() moves on
Tick ==
    /\ now < StartTime + MaxTime
    /\ now' = now + 1
    /\ UNCHANGED <<store_vars, service, h, threads, launch_time, stations, table,
                   download_date, last_commit, last_download,
                   refreshed>>

\* The engine dispatches NEW_ARCHIVE_RECORD: current_date is the date of the
\* record's dateTime.
new_archive_record ==
    /\ h.pc = "idle"
    /\ h' = [pc |-> "check", current_date |-> today, i |-> 1]
    /\ UNCHANGED <<store_vars, service, now, threads, launch_time, stations, table,
                   download_date, last_commit, last_download,
                   refreshed>>

\* A variant of IsCurrent with > for >=: C4 fails under it.
IsCurrent_strict(date_text, current_date) ==
    date_text # None /\ StrLess(isoformat(current_date), date_text)

\* download_date and download_date >= current_date.isoformat()
IsCurrent(date_text, current_date) ==
    date_text # None /\ StrGE(date_text, isoformat(current_date))

\* ACIS.new_archive_record, up to the test of the download date
ACIS_check ==
    /\ service = "ACIS"
    /\ h.pc = "check"
    /\ h' = IF IsCurrent(download_date, h.current_date) THEN Idle
            ELSE [h EXCEPT !.pc = "guard"]
    /\ UNCHANGED <<store_vars, service, now, threads, launch_time, stations, table,
                   download_date, last_commit, last_download,
                   refreshed>>

\* ACIS: "Launch of ACIS download thread aborted"
\*   if self.thread and self.thread.is_alive():
\*       thread_age = time.time() - self.launch_time
\*       if time.time() - thread_age < self.max_wait
ACIS_aborts ==
    /\ \E z \in Tracked("A") : is_alive(z)
    /\ LET thread_age == now - launch_time
       IN  now - thread_age < max_wait

\* ACIS.new_archive_record, the else branch: guard, then launch
ACIS_launch ==
    /\ service = "ACIS"
    /\ h.pc = "guard"
    /\ h' = Idle
    /\ IF ACIS_aborts
       THEN UNCHANGED <<threads, launch_time>>
       ELSE \/ /\ BagCardinality(Dropped("A")) < MaxTasks
               /\ threads' = Dropped("A") (+) Put(Started("A", h.current_date))
               /\ launch_time' = now
            \/ \* threading.ThreadError: self.thread = None
               /\ threads' = Dropped("A")
               /\ UNCHANGED launch_time
    /\ UNCHANGED <<store_vars, service, now, stations, table, download_date, last_commit,
                   last_download,
                   refreshed>>

\* Climate.fetch_data, up to the test of the download date
Climate_check ==
    /\ service = "Climate"
    /\ h.pc = "check"
    /\ h' = IF IsCurrent(last_download[station_ids[h.i]], h.current_date) THEN NextStation
            ELSE [h EXCEPT !.pc = "guard"]
    /\ UNCHANGED <<store_vars, service, now, threads, launch_time, stations, table,
                   download_date, last_commit, last_download,
                   refreshed>>

\* Variants of the guard of Climate. The first has the arithmetic of
\* ACIS.new_archive_record, which compares the launch time itself with
\* max_wait: C1 fails under it. The second aborts at an age of max_wait
\* too: C3 fails under it.
Climate_aborts_as_ACIS(s) ==
    /\ \E z \in Tracked(s) : is_alive(z)
    /\ LET thread_age == now - stations[s].launch_time
       IN  now - thread_age < max_wait

Climate_aborts_at_max_wait(s) ==
    /\ \E z \in Tracked(s) : is_alive(z)
    /\ LET thread_age == now - stations[s].launch_time
       IN  thread_age <= max_wait

\* A variant of Climate_aborts that tests the thread attribute alone, without
\* is_alive(): C25 fails under it.
Climate_aborts_on_any_thread(s) == Tracked(s) # {}

\* Climate: "Launch of download thread aborted"
\*   if self.stations[station_id]['thread'] and ...['thread'].is_alive():
\*       thread_age = time.time() - self.stations[station_id]['launch_time']
\*       if thread_age < self.max_wait
Climate_aborts(s) ==
    /\ \E z \in Tracked(s) : is_alive(z)
    /\ LET thread_age == now - stations[s].launch_time
       IN  thread_age < max_wait

\* Climate.fetch_data, from the guard on
Climate_launch ==
    /\ service = "Climate"
    /\ h.pc = "guard"
    /\ h' = NextStation
    /\ LET s == station_ids[h.i]
       IN  IF Climate_aborts(s)
           THEN UNCHANGED <<stations, threads>>
           ELSE \/ /\ BagCardinality(Dropped(s)) < MaxTasks
                   /\ threads' = Dropped(s) (+) Put(Started(s, h.current_date))
                   /\ stations' = [stations EXCEPT ![s].launch_time = now]
                \/ \* threading.ThreadError: self.stations[station_id]['thread'] = None
                   /\ threads' = Dropped(s)
                   /\ UNCHANGED stations
    /\ UNCHANGED <<store_vars, service, now, launch_time, table, download_date,
                   last_commit, last_download,
                   refreshed>>

---------------------------------------------------------------------------
(* The worker thread of ACIS: acis.fetch_data *)

\* A variant of fetch_error that marks the day as downloaded all the same:
\* C7 fails under it.
fetch_error_marks_download(z) ==
    /\ service = "ACIS"
    /\ z.st = "fetching"
    /\ threads' = Ended(z, "failed")
    /\ download_date' = isoformat(z.current_date)
    /\ UNCHANGED <<store_vars, service, now, h, launch_time, stations, table,
                   last_commit, last_download,
                   refreshed>>

\* except Exception: log.error("Error fetching ACIS data"); return
fetch_error(z) ==
    /\ service = "ACIS"
    /\ z.st = "fetching"
    /\ threads' = Ended(z, "failed")
    /\ UNCHANGED <<store_vars, service, now, h, launch_time, stations, table,
                   download_date, last_commit, last_download,
                   refreshed>>

\* A variant of committed_in_transaction for a connection in autocommit
\* mode, where every statement is visible at once: C6 fails under it.
autocommitted(rows, date_text) == <<rows, date_text>>

\* A variant of committed_at_exit for a transaction without the INSERT OR
\* REPLACE of the download date: C5 fails under it.
committed_without_date(rows, date_text) == <<rows, download_date>>

\* The rows and the date other connections read after a statement of an open
\* weedb.Transaction: the committed ones, whatever the statement wrote.
committed_in_transaction(rows, date_text) == <<table, download_date>>

\* The rows and the date other connections read once the transaction has
\* committed: what its statements wrote.
committed_at_exit(rows, date_text) == <<rows, date_text>>

\* What the statements of task z have written so far inside its transaction
tx_rows(z) == gen_acis_records(Responses[z.results], z.k)

tx_date(z) == IF z.st = "marked" THEN isoformat(z.current_date) ELSE download_date

\* urlopen() and json.loads() return results; weedb.connect();
\* Transaction.__enter__; DELETE FROM <table>, which takes the write lock
fetch_ok_tx_delete(z, r) ==
    /\ service = "ACIS"
    /\ z.st = "fetching"
    /\ ~Locked
    /\ threads' = Step(z, [z EXCEPT !.st = "tx", !.results = r, !.k = 0])
    /\ table' = committed_in_transaction(<<>>, download_date)[1]
    /\ download_date' = committed_in_transaction(<<>>, download_date)[2]
    /\ UNCHANGED <<store_vars, service, now, h, launch_time, stations, last_commit, last_download,
                   refreshed>>

\* for rec in gen_acis_records(results): INSERT INTO <table> VALUES rec[2:]
tx_insert(z) ==
    /\ service = "ACIS"
    /\ z.st = "tx"
    /\ ~Raises[z.results][z.k]
    /\ ~Done[z.results][z.k]
    /\ threads' = Step(z, [z EXCEPT !.k = z.k + 1])
    /\ table' = committed_in_transaction(
                    gen_acis_records(Responses[z.results], z.k + 1), download_date)[1]
    /\ download_date' = committed_in_transaction(
                    gen_acis_records(Responses[z.results], z.k + 1), download_date)[2]
    /\ UNCHANGED <<store_vars, service, now, h, launch_time, stations, last_commit, last_download,
                   refreshed>>

\* INSERT OR REPLACE INTO <table>_metadata ('download_date', current_date.isoformat())
tx_mark(z) ==
    /\ service = "ACIS"
    /\ z.st = "tx"
    /\ Done[z.results][z.k]
    /\ threads' = Step(z, [z EXCEPT !.st = "marked"])
    /\ table' = committed_in_transaction(tx_rows(z), isoformat(z.current_date))[1]
    /\ download_date' = committed_in_transaction(tx_rows(z), isoformat(z.current_date))[2]
    /\ UNCHANGED <<store_vars, service, now, h, launch_time, stations, last_commit, last_download,
                   refreshed>>

\* Transaction.__exit__ without an exception: commit; fetch_data returns
tx_commit(z) ==
    /\ service = "ACIS"
    /\ z.st = "marked"
    /\ table' = committed_at_exit(tx_rows(z), tx_date(z))[1]
    /\ download_date' = committed_at_exit(tx_rows(z), tx_date(z))[2]
    /\ last_commit' = [results |-> z.results, current_date |-> z.current_date]
    /\ threads' = Ended(z, "done")
    /\ refreshed' = [refreshed EXCEPT ![z.station_id] = Latest(@, z.current_date)]
    /\ UNCHANGED <<store_vars, service, now, h, launch_time, stations, last_download>>

\* A variant of tx_gen_raises that catches the exception inside the
\* transaction, which then commits the records inserted so far: C8 fails
\* under it.
tx_gen_raises_and_commits(z) ==
    /\ service = "ACIS"
    /\ z.st = "tx"
    /\ Raises[z.results][z.k]
    /\ table' = tx_rows(z)
    /\ threads' = Ended(z, "failed")
    /\ UNCHANGED <<store_vars, service, now, h, launch_time, stations,
                   download_date, last_commit, last_download,
                   refreshed>>

\* gen_acis_records raises inside the transaction (KeyError, ValueError):
\* Transaction.__exit__ rolls back and the exception goes on. Nothing in
\* fetch_data catches it, so it ends the thread.
tx_gen_raises(z) ==
    /\ service = "ACIS"
    /\ z.st = "tx"
    /\ Raises[z.results][z.k]
    /\ threads' = Ended(z, "raised")
    /\ UNCHANGED <<store_vars, service, now, h, launch_time, stations, table,
                   download_date, last_commit, last_download,
                   refreshed>>

\* weedb raises after the fetch: connect() fails, the database is locked by
\* another writer, or a statement or the commit fails. An open transaction is
\* rolled back; the exception ends the thread.
tx_store_raises(z) ==
    /\ service = "ACIS"
    /\ z.st \in {"fetching", "tx", "marked"}
    /\ threads' = Ended(z, "raised")
    /\ UNCHANGED <<store_vars, service, now, h, launch_time, stations, table,
                   download_date, last_commit, last_download,
                   refreshed>>

---------------------------------------------------------------------------
(* The worker thread of Climate: <downloader>.fetch_station_data, the       *)
(* refresh task of the design (fetch, normalize, then replace_station and  *)
(* mark_refreshed as one transaction; every failure is caught and logged)  *)

\* mark_refreshed(station_id, date), in the transaction of replace_station
fetch_station_data_commit(z) ==
    /\ service = "Climate"
    /\ z.st = "fetching"
    /\ last_download' = [last_download EXCEPT ![z.station_id] = isoformat(z.current_date)]
    /\ threads' = Ended(z, "done")
    /\ refreshed' = [refreshed EXCEPT ![z.station_id] = Latest(@, z.current_date)]
    /\ UNCHANGED <<store_vars, service, now, h, launch_time, stations, table,
                   download_date, last_commit>>

\* FetchFailure, SchemaMismatch, MalformedValue, StoreUnavailable: logged
fetch_station_data_fails(z) ==
    /\ service = "Climate"
    /\ z.st = "fetching"
    /\ threads' = Ended(z, "failed")
    /\ UNCHANGED <<store_vars, service, now, h, launch_time, stations, table,
                   download_date, last_commit, last_download,
                   refreshed>>

---------------------------------------------------------------------------
(* The process *)

\* The engine stops (or is killed) and starts again: its threads die with it,
\* SQLite discards an uncommitted transaction, __init__ builds the service
\* anew. Climate.__init__ calls fetch_data for each station with today's date.
Restart ==
    /\ threads # EmptyBag
    /\ threads' = EmptyBag
    /\ launch_time' = NoTime
    /\ stations' = [s \in AllStations |-> [launch_time |-> NoTime]]
    /\ \/ service = "ACIS" /\ h' = Idle
       \/ /\ service = "Climate"
          /\ h' = [pc |-> "check", current_date |-> today, i |-> 1]
    /\ UNCHANGED <<store_vars, service, now, table, download_date, last_commit, last_download,
                   refreshed>>

Next ==
    \/ Tick
    \/ new_archive_record
    \/ ACIS_check
    \/ ACIS_launch
    \/ Climate_check
    \/ Climate_launch
    \/ \E z \in Objects : fetch_error(z)
    \/ \E z \in Objects, r \in 1..Len(Responses) : fetch_ok_tx_delete(z, r)
    \/ \E z \in Objects : tx_insert(z)
    \/ \E z \in Objects : tx_mark(z)
    \/ \E z \in Objects : tx_commit(z)
    \/ \E z \in Objects : tx_gen_raises(z)
    \/ \E z \in Objects : tx_store_raises(z)
    \/ \E z \in Objects : fetch_station_data_commit(z)
    \/ \E z \in Objects : fetch_station_data_fails(z)
    \/ Restart

Spec == Init /\ [][Next]_vars

\* The engine thread inside a call of new_archive_record: one of these is
\* its next step, by the service and the place it is at
EngineStep ==
    \/ ACIS_check
    \/ ACIS_launch
    \/ Climate_check
    \/ Climate_launch

\* The next step of the code of a worker thread, when it has one that does
\* not wait: under the write lock of SQLite only the task that holds it has
\* one, and a task of Climate has one
WorkerStep ==
    \/ \E z \in Objects, r \in 1..Len(Responses) : fetch_ok_tx_delete(z, r)
    \/ \E z \in Objects : tx_insert(z)
    \/ \E z \in Objects : tx_mark(z)
    \/ \E z \in Objects : tx_commit(z)
    \/ \E z \in Objects : tx_gen_raises(z)
    \/ \E z \in Objects : fetch_station_data_commit(z)

\* The threads of the process are scheduled: the engine thread goes on
\* inside a call of new_archive_record, and a worker thread that can take
\* its next step takes it. When a record arrives, when the clock advances
\* and whether a fetch or the store fails is up to the environment.
Scheduling ==
    /\ WF_vars(EngineStep)
    /\ WF_vars(WorkerStep)

LiveSpec == Init /\ [][Next]_vars /\ Scheduling

---------------------------------------------------------------------------
(* Vocabulary of the properties *)

\* The last-refresh date the freshness check of station s reads
Stored(s) == IF service = "ACIS" THEN download_date ELSE last_download[s]

\* The launch time in the refresh state of station s
LaunchTime(s) == IF service = "ACIS" THEN launch_time ELSE stations[s].launch_time

Age(s) == now - LaunchTime(s)

\* The task the refresh state of s holds is running / has ended
TrackedAlive(s) == \E z \in Tracked(s) : z.st \in Running

TrackedEnded(s) == \E z \in Tracked(s) : z.st \in {"done", "failed", "raised"}

\* The station the engine thread is working on (inside a call)
Current == station_ids[h.i]

\* A step of the engine thread for station s: the freshness check, and the
\* guard with the launch
CheckStep(s) ==
    /\ h.pc = "check" /\ h' # h /\ Current = s
    /\ ACIS_check \/ Climate_check

GuardStep(s) ==
    /\ h.pc = "guard" /\ h' # h /\ Current = s
    /\ ACIS_launch \/ Climate_launch

\* The step started a task for s, which the refresh state now holds together
\* with its launch time
Launched(s) ==
    /\ Tracked(s)' = {Started(s, h.current_date)}
    /\ LaunchTime(s)' = now
    /\ InFlight(s)' = InFlight(s) + 1

\* Thread.start() failed, the call caught the error: no task more than
\* before and no task handle
StartFailed(s) ==
    /\ Tracked(s)' = {}
    /\ LaunchTime(s)' = LaunchTime(s)
    /\ InFlight(s)' = InFlight(s)

\* A date text is the date d of the calendar with current_date <= d
Fresh(date_text, current_date) ==
    \E d \in Dates : date_text = isoformat(d) /\ DateLE(current_date, d)

\* All the records of a reply, and what a reader finds once a refresh has
\* committed
Normalized(r) == gen_acis_records(Responses[r], Len(DayTuples(Responses[r])))

Snapshot(c) ==
    IF c = NoCommit THEN <<<<>>, None>>
    ELSE <<Normalized(c.results), isoformat(c.current_date)>>

---------------------------------------------------------------------------
(* C1: single flight in Climate.fetch_data *)

\* C1, as stated: in Climate, while the task a station's refresh state holds
\* is running and younger than max_wait, exactly one task is in flight for
\* that station.
C1_ExactlyOneInFlight ==
    service = "Climate" =>
        \A s \in AllStations :
            TrackedAlive(s) /\ Age(s) < max_wait => InFlight(s) = 1

\* C1, amended: in Climate, while the task a station's refresh state holds is
\* running and younger than max_wait, a fetch_data call for that station
\* launches nothing and leaves the refresh state as it is, and no step adds a
\* task in flight for the station. (A zombie that the task replaced may be in
\* flight beside it.)
C1_NoLaunchWithinMaxWait ==
    [][\A s \in AllStations :
          service = "Climate" /\ TrackedAlive(s) /\ Age(s) < max_wait =>
              /\ InFlight(s)' <= InFlight(s)
              /\ GuardStep(s) => UNCHANGED <<threads, stations>>]_vars

\* A call of Climate.fetch_data is at its guard while the station's task is
\* running and younger than max_wait
C1_CallWithinMaxWait ==
    /\ service = "Climate"
    /\ h.pc = "guard"
    /\ TrackedAlive(Current)
    /\ Age(Current) < max_wait

---------------------------------------------------------------------------
(* C2: single flight in ACIS.new_archive_record *)

\* C2, as stated: in ACIS, when the download date is stale and the thread
\* launched before is alive and younger than max_wait, the call launches
\* nothing.
C2_AbortsWithinMaxWait ==
    [][service = "ACIS" /\ GuardStep("A") /\ TrackedAlive("A") /\ Age("A") < max_wait =>
          UNCHANGED <<threads, launch_time>>]_vars

---------------------------------------------------------------------------
(* C3: the zombie policy *)

\* C3: a call that finds the date stale and the station's task running at an
\* age of max_wait or more leaves that task running, unreferenced, and
\* starts a second one, which the refresh state then holds with its launch
\* time; or Thread.start() fails, the call catches the error and the refresh
\* state holds no task.
C3_ZombiePolicy ==
    [][\A s \in AllStations :
          GuardStep(s) /\ TrackedAlive(s) /\ Age(s) >= max_wait =>
              /\ \A old \in Tracked(s) :
                     CopiesIn([old EXCEPT !.tracked = FALSE], threads')
                         = CopiesIn([old EXCEPT !.tracked = FALSE], threads) + 1
              /\ Launched(s) \/ StartFailed(s)]_vars

\* A zombie and its successor are in flight together
C3_TwoInFlight ==
    \E s \in AllStations :
        /\ InFlight(s) = 2
        /\ TrackedAlive(s)
        /\ \E z \in Objects : z.station_id = s /\ ~z.tracked

---------------------------------------------------------------------------
(* C4: the freshness gate *)

\* C4: the freshness check of a call ends the work for the station, task
\* handle and launch time untouched, when the stored date is a date on or
\* after current_date; otherwise (no date, or an earlier one) the call goes
\* on to the guard.
C4_FreshnessGate ==
    [][\A s \in AllStations :
          CheckStep(s) =>
              /\ UNCHANGED <<threads, launch_time, stations>>
              /\ IF Fresh(Stored(s), h.current_date)
                 THEN h'.pc # "guard"
                 ELSE h' = [h EXCEPT !.pc = "guard"]]_vars

\* A call is at its freshness check with the stored date on or after
\* current_date
C4_CallWithFreshDate ==
    /\ h.pc = "check"
    /\ Fresh(Stored(Current), h.current_date)

---------------------------------------------------------------------------
(* C5: the committed date is what the freshness check reads *)

---------------------------------------------------------------------------
(* C6: atomic replacement *)

\* C6: in every state a reader of the database of ACIS finds all the records
\* of the last committed reply together with the date of that refresh (or
\* nothing and no date before the first commit), whatever the tasks have
\* written in open transactions and wherever the process was stopped.
C6_AtomicReplacement ==
    service = "ACIS" => <<table, download_date>> = Snapshot(last_commit)

\* A task has deleted and inserted records in its transaction while the
\* records of an earlier, different reply are the committed ones
C6_MidReplacement ==
    \E z \in Objects :
        /\ z.st \in {"tx", "marked"}
        /\ z.k >= 1
        /\ last_commit # NoCommit
        /\ last_commit.results # z.results

---------------------------------------------------------------------------
(* C7: failure of the provider request *)

\* C7: a task of ACIS whose provider request fails ends with the records and the
\* last-refresh dates as they were; tasks come into flight only in a call of
\* the service; and a call that finds the date stale and the station's task
\* ended by such a failure starts a new task (or catches the error of
\* Thread.start()).
C7_FetchFailure ==
    [][/\ \A z \in Objects :
              fetch_error(z) =>
                  /\ UNCHANGED <<table, download_date, last_commit, last_download>>
                  /\ InFlight(z.station_id)' = InFlight(z.station_id) - 1
       /\ \A s \in AllStations :
              /\ InFlight(s)' > InFlight(s) => GuardStep(s)
              /\ GuardStep(s) /\ (\E z \in Tracked(s) : z.st = "failed") =>
                     Launched(s) \/ StartFailed(s)]_vars

\* A call of ACIS is at its guard after the station's task ended by a failed
\* request
C7_CallAfterFailure ==
    /\ service = "ACIS"
    /\ h.pc = "guard"
    /\ \E z \in Tracked(Current) : z.st = "failed"

---------------------------------------------------------------------------
(* C8: failure of the normalizer *)

\* C8: the step in which gen_acis_records raises leaves the committed records
\* and download date as they are, and these change only in the commit of a
\* task whose reply was normalized to its end.
C8_NoPartialWrite ==
    [][/\ (\E z \in Objects : tx_gen_raises(z)) => UNCHANGED <<table, download_date>>
       /\ <<table, download_date>>' # <<table, download_date>> =>
              \E z \in Objects :
                  /\ tx_commit(z)
                  /\ Done[z.results][z.k]]_vars

\* gen_acis_records is about to raise after records were inserted in the
\* open transaction, with records of an earlier refresh committed
C8_RaisesAfterInserts ==
    \E z \in Objects :
        /\ z.st = "tx"
        /\ z.k >= 1
        /\ Raises[z.results][z.k]
        /\ table # <<>>

---------------------------------------------------------------------------
(* C9: failures and the task boundary *)

\* C9, as stated: no refresh task ends by an exception that nothing caught.
C9_NoUncaughtError ==
    \A z \in Objects : z.st # "raised"

---------------------------------------------------------------------------
(* C10: after a task has ended *)

\* C10: a call that finds the date stale and the station's task ended, by
\* success or by failure, starts a new task whatever the time since the
\* previous launch (or catches the error of Thread.start()).
C10_LaunchAfterCompletion ==
    [][\A s \in AllStations :
          GuardStep(s) /\ TrackedEnded(s) => Launched(s) \/ StartFailed(s)]_vars

\* A call of Climate is at its guard with the station's task ended less than
\* max_wait after its launch
C10_CallSoonAfterCompletion ==
    /\ service = "Climate"
    /\ h.pc = "guard"
    /\ TrackedEnded(Current)
    /\ Age(Current) < max_wait

---------------------------------------------------------------------------
(* C11: station independence *)

\* The task the refresh state of station s holds is running, read from the
\* Thread objects themselves
OwnTaskRunning(s) ==
    \E z \in Objects : z.tracked /\ z.station_id = s /\ z.st \in Running

---------------------------------------------------------------------------
(* C12 *)

\* The key of a stored row. The table of ACIS holds the rows of its one
\* station and has no station column.
Key(row) == <<row.month, row.day, row.obsType, row.stat, row.reduction>>

\* C12: after any replace of the records of a station (whatever the reply of
\* the provider, however many refreshes have committed, overlapping or not)
\* no two stored rows share the key (station_id, month, day, observation_type,
\* statistic, reduction).
C12_KeyUniqueness ==
    \A i, j \in 1..Len(table) : Key(table[i]) = Key(table[j]) => i = j

---------------------------------------------------------------------------
(* The second specification: one reply is normalized and stored, the       *)
(* database is set up, and the resolver is queried                         *)

\* The largest number of statistic groups of a reply, and of entries of a group
MaxGroups == 7

MaxEntries == 2

\* The entries the groups of a reply are made of: a value, the same day of
\* another year, a missing value, a trace, a text that is no number, a date
\* that is no date
AllEntries ==
    << Entry(<<"3", "8", ".", "5">>, <<"1", "9", "0", "0", "-", "0", "1", "-", "0", "1">>),
       Entry(<<"5", "8", ".", "0">>, <<"1", "9", "9", "7", "-", "0", "1", "-", "0", "1">>),
       Entry(<<" ", "m">>,           <<"1", "9", "9", "7", "-", "0", "1", "-", "0", "2">>),
       Entry(<<"T">>,                <<"1", "9", "0", "0", "-", "0", "1", "-", "0", "2">>),
       Entry(<<"x">>,                <<"1", "9", "0", "0", "-", "0", "1", "-", "0", "1">>),
       Entry(<<"3", "8", ".", "5">>, <<"1", "9", "0", "0", "-", "0", "1">>) >>

\* The entries of AllEntries at the indices S, in their order
RECURSIVE EntriesAt(_)
EntriesAt(S) ==
    IF S = {} THEN <<>>
    ELSE LET i == CHOOSE x \in S : \A y \in S : x <= y
         IN  <<AllEntries[i]>> \o EntriesAt(S \ {i})

EntryLists ==
    {EntriesAt(S) : S \in {T \in SUBSET (1..Len(AllEntries)) : Cardinality(T) <= MaxEntries}}

\* The value text of a number in group g starts with the digit g, so that the
\* groups of a reply differ
GroupText(g, value_text) ==
    IF value_text # <<>> /\ IsDigit(Head(value_text))
    THEN <<Digits[g + 1]>> \o value_text
    ELSE value_text

\* A reply of n groups with the entries es
Reply(n, es) ==
    [meta |-> Meta,
     smry |-> [g \in 1..n |-> [j \in 1..Len(es) |->
                  Entry(GroupText(g, es[j][1]), es[j][2])]]]

\* one group, one fewer than asked for, as many, more
GroupCounts == {1, Len(acis_struct) - 1, Len(acis_struct), MaxGroups}

Replies == {Reply(n, es) : n \in GroupCounts, es \in EntryLists} \cup {RespError}

\* The engine is not part of this specification
EngineAtRest ==
    /\ service = "Climate"
    /\ now = StartTime
    /\ h = Idle
    /\ threads = EmptyBag
    /\ launch_time = NoTime
    /\ stations = [s \in AllStations |-> [launch_time |-> NoTime]]
    /\ table = <<>>
    /\ download_date = None
    /\ last_commit = NoCommit
    /\ last_download = [s \in AllStations |-> None]
    /\ refreshed = [s \in AllStations |-> None]

StoreInit ==
    /\ EngineAtRest
    /\ reply \in Replies
    /\ gen = [k |-> 0, st |-> "running", records |-> <<>>]
    /\ climate_data = <<>>
    /\ vt = NoResult
    /\ db = NoDatabase
    /\ agg = NoAggregate

\* for rec in gen_acis_records(results): the generator yields its next record
yield_record ==
    /\ gen.st = "running"
    /\ ~gen_acis_records_raises(reply, gen.k)
    /\ ~gen_acis_records_done(reply, gen.k)
    /\ gen' = [gen EXCEPT !.k = @ + 1,
                          !.records = Append(@, gen_item_record(DayTuples(reply)[gen.k + 1]))]
    /\ vt' = NoResult
    /\ agg' = NoAggregate
    /\ UNCHANGED <<engine_vars, reply, climate_data, db>>

\* the generator raises: KeyError of the header, ValueError of a conversion
yield_raises ==
    /\ gen.st = "running"
    /\ gen_acis_records_raises(reply, gen.k)
    /\ gen' = [gen EXCEPT !.st = "raised"]
    /\ vt' = NoResult
    /\ agg' = NoAggregate
    /\ UNCHANGED <<engine_vars, reply, climate_data, db>>

\* the generator returns: zip() is exhausted
yield_stops ==
    /\ gen.st = "running"
    /\ gen_acis_records_done(reply, gen.k)
    /\ gen' = [gen EXCEPT !.st = "done"]
    /\ vt' = NoResult
    /\ agg' = NoAggregate
    /\ UNCHANGED <<engine_vars, reply, climate_data, db>>

\* The records the generator has yielded
records == gen.records

---------------------------------------------------------------------------
(* Setup of the database: climate.setup_climate_database and               *)
(* climate_data.create_climate_database                                    *)

\* A variant of DatabaseExists for a weedb.create that returns quietly when
\* the database is there: C18 fails under it.
DatabaseExists_never(d) == FALSE

\* weedb.create(database_dict) raises weedb.DatabaseExistsError
DatabaseExists(d) == d.exists

\* CREATE TABLE [IF NOT EXISTS] name
CreateTable(d, name, if_not_exists) ==
    IF name \in d.tables
    THEN IF if_not_exists THEN d ELSE [d EXCEPT !.error = <<"OperationalError">>]
    ELSE [d EXCEPT !.tables = @ \cup {name}]

\* CREATE INDEX name
CreateIndex(d, name) ==
    IF name \in d.indexes THEN [d EXCEPT !.error = <<"OperationalError">>]
    ELSE [d EXCEPT !.indexes = @ \cup {name}]

\* INSERT INTO <table>_metadata (name, value): name is the PRIMARY KEY
InsertMetadata(d, name, value) ==
    IF \E row \in d.metadata : row[1] = name
    THEN [d EXCEPT !.error = <<"IntegrityError">>]
    ELSE [d EXCEPT !.metadata = @ \cup {<<name, value>>}]

\* The database after setup_climate_database(database_dict, 'climate_data').
\* An exception inside the transaction rolls its statements back and leaves
\* the call.
setup_climate_database_returns(d) ==
    IF DatabaseExists(d)
    THEN [d EXCEPT !.log = <<"Climate database already exists.">>, !.error = None]
    ELSE LET d0 == [d EXCEPT !.exists = TRUE, !.error = None,
                             !.log = <<"Climate database created.">>]
             d1 == CreateTable(d0, "climate_data", FALSE)
             d2 == IF d1.error = None THEN CreateIndex(d1, "climate_data_index") ELSE d1
             d3 == IF d2.error = None THEN CreateTable(d2, "station_metadata", FALSE) ELSE d2
         IN  IF d3.error = None
             THEN [d3 EXCEPT !.log = <<"Climate database table initialized.">>]
             ELSE [d0 EXCEPT !.error = d3.error]

\* The database after create_climate_database(database_dict, 'acis_data')
create_climate_database_returns(d) ==
    IF DatabaseExists(d)
    THEN [d EXCEPT !.log = <<"Climate database table acis_data already exists.">>,
                   !.error = None]
    ELSE LET d0 == [d EXCEPT !.exists = TRUE, !.error = None]
             d1 == CreateTable(d0, "acis_data", TRUE)
             d2 == IF d1.error = None THEN CreateIndex(d1, "acis_data_idx") ELSE d1
             d3 == IF d2.error = None THEN CreateTable(d2, "acis_data_metadata", TRUE) ELSE d2
             d4 == IF d3.error = None THEN InsertMetadata(d3, "version", "1.0") ELSE d3
         IN  IF d4.error = None
             THEN [d4 EXCEPT !.log = <<"Climate database table acis_data initialized.">>]
             ELSE [d0 EXCEPT !.error = d4.error]

\* The database after a setup_climate_database that weedb.create let pass
\* and that an exception left before the transaction of the tables
\* committed (weedb.connect or an execute raised, the disk was full): the
\* statements of the transaction are rolled back, the database stays.
setup_climate_database_raises(d) ==
    [d EXCEPT !.exists = TRUE, !.error = <<"OperationalError">>,
              !.log = <<"Climate database created.">>]

\* The same for create_climate_database, which has logged nothing by then
create_climate_database_raises(d) ==
    [d EXCEPT !.exists = TRUE, !.error = <<"OperationalError">>]

setup_climate_database ==
    /\ db' = setup_climate_database_returns(db)
    /\ vt' = NoResult
    /\ agg' = NoAggregate
    /\ UNCHANGED <<engine_vars, reply, gen, climate_data>>

create_climate_database ==
    /\ db' = create_climate_database_returns(db)
    /\ vt' = NoResult
    /\ agg' = NoAggregate
    /\ UNCHANGED <<engine_vars, reply, gen, climate_data>>

\* A setup call that creates the database and is interrupted before its
\* tables are committed
setup_climate_database_interrupted ==
    /\ ~DatabaseExists(db)
    /\ db' = setup_climate_database_raises(db)
    /\ vt' = NoResult
    /\ agg' = NoAggregate
    /\ UNCHANGED <<engine_vars, reply, gen, climate_data>>

create_climate_database_interrupted ==
    /\ ~DatabaseExists(db)
    /\ db' = create_climate_database_raises(db)
    /\ vt' = NoResult
    /\ agg' = NoAggregate
    /\ UNCHANGED <<engine_vars, reply, gen, climate_data>>

---------------------------------------------------------------------------
(* The store of the stations: the refresh transaction of                   *)
(* <downloader>.fetch_station_data on the table of climate.py              *)

\* The rows another downloader has normalized for its station: metric values
OtherRecords ==
    << [month |-> <<1>>, day |-> <<1>>, usUnits |-> 16, obsType |-> "outTemp",
        stat |-> "high", reduction |-> "max", value |-> <<140>>, year |-> <<1950>>] >>

\* A record as a row of station s
Row(s, rec) ==
    [station_id |-> s, month |-> rec.month, day |-> rec.day, usUnits |-> rec.usUnits,
     obsType |-> rec.obsType, stat |-> rec.stat, reduction |-> rec.reduction,
     value |-> rec.value, year |-> rec.year]

\* replace_station(station_id, records): DELETE the rows of the station, then
\* INSERT one row for each record, in one transaction
replace_station(s, recs) ==
    /\ "climate_data" \in db.tables
    /\ climate_data' = SelectSeq(climate_data, LAMBDA row : row.station_id # s)
                       \o [j \in 1..Len(recs) |-> Row(s, recs[j])]
    /\ vt' = NoResult
    /\ agg' = NoAggregate
    /\ UNCHANGED <<engine_vars, reply, gen, db>>

---------------------------------------------------------------------------
(* The resolver: clsle.ClimateReduction._do_query *)

time == <<"t", "i", "m", "e">>

\* The text of the reductions of the store
Chars(reduction) ==
    CASE reduction = "avg" -> <<"a", "v", "g">>
      [] reduction = "max" -> <<"m", "a", "x">>
      [] reduction = "min" -> <<"m", "i", "n">>

StartsWith(s, sub) == Len(s) >= Len(sub) /\ SubSeq(s, 1, Len(sub)) = sub

\* sub in s
RECURSIVE Contains(_, _)
Contains(s, sub) ==
    IF Len(s) < Len(sub) THEN FALSE
    ELSE StartsWith(s, sub) \/ Contains(Tail(s), sub)

\* s.replace(sub, ''): every occurrence, from the left
RECURSIVE Replace(_, _)
Replace(s, sub) ==
    IF s = <<>> THEN <<>>
    ELSE IF StartsWith(s, sub) THEN Replace(SubSeq(s, Len(sub) + 1, Len(s)), sub)
    ELSE <<Head(s)>> \o Replace(Tail(s), sub)

\* weewx.units.obs_group_dict.get(obs_type), with 'precip' set by clsle
obs_group_dict(obs_type) ==
    CASE obs_type = "outTemp" -> <<"group_temperature">>
      [] obs_type = "precip" -> <<"group_rain">>
      [] OTHER -> None

\* A variant of std_groups for a resolver that takes the unit system of the
\* caller (US) for every row: C19 fails under it.
std_groups_of_US(us_units, g) ==
    CASE g = <<"group_temperature">> -> <<"degree_F">>
      [] g = <<"group_rain">> -> <<"inch">>

\* weewx.units.std_groups[us_units][g]: US is 1, METRIC is 16
std_groups(us_units, g) ==
    CASE us_units = 1 /\ g = <<"group_temperature">> -> <<"degree_F">>
      [] us_units = 1 /\ g = <<"group_rain">> -> <<"inch">>
      [] us_units = 16 /\ g = <<"group_temperature">> -> <<"degree_C">>
      [] us_units = 16 /\ g = <<"group_rain">> -> <<"cm">>

\* The row matches the WHERE clause of the statement
Matches(row, params, reduct) ==
    /\ row.station_id = params.station_id
    /\ row.month = <<params.month>>
    /\ row.day = <<params.day>>
    /\ row.obsType = params.obs_type
    /\ row.stat = params.stat
    /\ Chars(row.reduction) = reduct

\* db_manager.getSql(stats_sql_stmt, ...): the first row of the result, or None
getSql(params, reduct) ==
    LET hits == SelectSeq(climate_data, LAMBDA row : Matches(row, params, reduct))
    IN  IF hits = <<>> THEN None ELSE <<hits[1]>>

\* A variant of query_raises for a resolver that looks the unit up before it
\* tests the result, as clxtype.get_aggregate does: C20 fails under it.
query_raises_without_row(params, result) ==
    /\ ~Contains(params.reduction, time)
    /\ obs_group_dict(params.obs_type) = None

\* std_group[g] raises KeyError: a row was found, the value is asked for and
\* the observation type has no unit group
query_raises(params, result) ==
    /\ result # None
    /\ ~Contains(params.reduction, time)
    /\ obs_group_dict(params.obs_type) = None

\* The ValueTuple of _do_query
ValueTuple(params) ==
    LET reduct == Replace(params.reduction, time)
        result == getSql(params, reduct)
        g == obs_group_dict(params.obs_type)
    IN  IF query_raises(params, result)
        THEN [params |-> params, raised |-> TRUE,
              value |-> None, unit |-> None, group |-> None]
        ELSE IF result # None
        THEN IF Contains(params.reduction, time)
             THEN [params |-> params, raised |-> FALSE,
                   value |-> result[1].year, unit |-> <<"count">>, group |-> <<"group_count">>]
             ELSE [params |-> params, raised |-> FALSE,
                   value |-> result[1].value,
                   unit |-> std_groups(result[1].usUnits, g), group |-> g]
        ELSE [params |-> params, raised |-> FALSE,
              value |-> None, unit |-> None, group |-> None]

\* $climate(station_id).day.<obs_type>.<stat>.<reduction> of a report, one
\* tag after the other. The query reads the committed rows; while a refresh
\* normalizes these are the rows it read before.
do_query(params) ==
    /\ "climate_data" \in db.tables
    /\ gen.st # "running"
    /\ vt = NoResult
    /\ agg = NoAggregate
    /\ vt' = ValueTuple(params)
    /\ UNCHANGED <<engine_vars, reply, gen, climate_data, db, agg>>

\* ClimateReduction.__str__ returns str(vh): the value is in the report
str_returns ==
    /\ vt # NoResult
    /\ vt' = NoResult
    /\ UNCHANGED <<engine_vars, reply, gen, climate_data, db, agg>>

\* The reductions a report asks for
Reductions ==
    {Chars(r) : r \in {"avg", "max", "min"}}
    \cup {Chars(r) \o time : r \in {"avg", "max", "min"}}

\* The queries of the reports: January 1st and 2nd, a type without a unit group
Queries ==
    {q \in [station_id : AllStations, month : {1}, day : {1, 2},
            obs_type : {"outTemp", "foo"}, stat : {"high", "low"},
            reduction : Reductions] :
        \/ q.station_id = "A" /\ q.stat = "high"
        \/ q.day = 1 /\ q.obs_type = "outTemp"}

\* The characters of the words of the aggregation names and of the store
Text(word) ==
    CASE word = "high" -> <<"h", "i", "g", "h">>
      [] word = "low" -> <<"l", "o", "w">>
      [] word = "year" -> <<"y", "e", "a", "r">>
      [] word = "avg" -> <<"a", "v", "g">>
      [] word = "max" -> <<"m", "a", "x">>
      [] word = "min" -> <<"m", "i", "n">>

\* '_'.join(words)
RECURSIVE Join(_)
Join(words) ==
    IF Len(words) = 1 THEN Text(words[1])
    ELSE Text(words[1]) \o <<"_">> \o Join(Tail(words))

\* A variant of climate_aggs that also holds names of store reductions:
\* C23 fails under it.
climate_aggs_and_reductions ==
    {Join(w) : w \in {<<"high", "avg">>, <<"low", "avg">>,
                      <<"high", "high">>, <<"high", "high", "year">>,
                      <<"low", "high">>, <<"low", "high", "year">>,
                      <<"low", "low">>, <<"low", "low", "year">>,
                      <<"high", "low">>, <<"high", "low", "year">>,
                      <<"high", "max">>, <<"low", "min">>}}

\* The set of all valid aggregation types
climate_aggs ==
    {Join(w) : w \in {<<"high", "avg">>, <<"low", "avg">>,
                      <<"high", "high">>, <<"high", "high", "year">>,
                      <<"low", "high">>, <<"low", "high", "year">>,
                      <<"low", "low">>, <<"low", "low", "year">>,
                      <<"high", "low">>, <<"high", "low", "year">>}}

\* Timestamps count half days of January from the local midnight that
\* starts the 1st
HalfDaysInDay == 2

\* datetime.date.fromtimestamp(ts)
fromtimestamp(ts) == [month |-> 1, day |-> (ts \div HalfDaysInDay) + 1]

\* A variant of query_day for a mapper that takes the day the timespan
\* stops on: C22 fails under it.
query_day_of_stop(timespan) == fromtimestamp(timespan.stop)

\* We determine which day to use by the start of the timespan
query_day(timespan) == fromtimestamp(timespan.start)

\* The place of the first '_' of s, Len(s) + 1 when it has none
RECURSIVE find(_)
find(s) ==
    IF s = <<>> \/ Head(s) = "_" THEN 1 ELSE 1 + find(Tail(s))

\* aggregate_type.split('_', maxsplit=1), then high becomes max and low min
split(aggregate_type) ==
    LET i == find(aggregate_type)
        stats == SubSeq(aggregate_type, 1, i - 1)
        reduction == SubSeq(aggregate_type, i + 1, Len(aggregate_type))
    IN  [stats |-> stats,
         reduction |-> IF reduction = Text("high") THEN Text("max")
                       ELSE IF reduction = Text("low") THEN Text("min")
                       ELSE reduction]

\* The row matches the WHERE clause of stats_sql_stmt, which names no
\* observation type
MatchesStats(row, station_id, day, parts) ==
    /\ row.station_id = station_id
    /\ row.month = <<day.month>>
    /\ row.day = <<day.day>>
    /\ Text(row.stat) = parts.stats
    /\ Text(row.reduction) = parts.reduction

\* db_manager.getSql(stats_sql_stmt, ...): the first row of the result, or None
getSqlStats(station_id, day, parts) ==
    LET hits == SelectSeq(climate_data,
                          LAMBDA row : MatchesStats(row, station_id, day, parts))
    IN  IF hits = <<>> THEN None ELSE <<hits[1]>>

\* What get_aggregate returns or raises
get_aggregate_returns(call) ==
    LET day == query_day(call.timespan)
        parts == split(call.aggregate_type)
        val == getSqlStats(call.station_id, day, parts)
        raises(e, q) == [call |-> <<call>>, raised |-> <<e>>, queried |-> q,
                         value |-> None, unit |-> None, group |-> None]
    IN  IF call.aggregate_type \notin climate_aggs
        THEN raises("UnknownAggregation", FALSE)
        ELSE IF call.obs_type # "outTemp"
        THEN raises("UnknownObservationType", FALSE)
        ELSE IF Contains(call.aggregate_type, Text("year"))
        THEN [call |-> <<call>>, raised |-> None, queried |-> TRUE,
              value |-> IF val # None THEN val[1].year ELSE None,
              unit |-> None, group |-> None]
        ELSE IF val = None
        THEN raises("KeyError", TRUE)
        ELSE [call |-> <<call>>, raised |-> None, queried |-> TRUE,
              value |-> val[1].value,
              unit |-> std_groups(val[1].usUnits, <<"group_temperature">>),
              group |-> <<"group_temperature">>]

\* $day.outTemp.<aggregate_type> of a report, one tag after the other, on
\* the committed rows
get_aggregate(call) ==
    /\ "climate_data" \in db.tables
    /\ gen.st # "running"
    /\ vt = NoResult
    /\ agg = NoAggregate
    /\ agg' = get_aggregate_returns(call)
    /\ UNCHANGED <<engine_vars, reply, gen, climate_data, vt, db>>

\* The report takes the ValueTuple, or the exception ends the tag
aggregate_returned ==
    /\ agg # NoAggregate
    /\ agg' = NoAggregate
    /\ UNCHANGED <<engine_vars, reply, gen, climate_data, vt, db>>

\* The timespans of the reports: January 1st and January 2nd, each from
\* midnight to midnight
Timespans == {[start |-> 0, stop |-> 2], [start |-> 2, stop |-> 4]}

\* The aggregations of the reports: the ten names and two others, a type
\* that is not outTemp
Aggregates ==
    {c \in [obs_type : {"outTemp", "foo"}, timespan : Timespans,
            aggregate_type : climate_aggs \cup {Join(<<"high", "max">>),
                                                Join(<<"low", "min">>)},
            station_id : AllStations] :
        \/ c.station_id = "A" /\ c.obs_type = "outTemp"
        \/ c.station_id = "B" /\ c.timespan.start = 0
              /\ c.aggregate_type \in {Join(<<"high", "high">>),
                                       Join(<<"high", "high", "year">>)}
        \/ c.obs_type = "foo" /\ c.timespan.start = 0
              /\ c.aggregate_type \in {Join(<<"high", "avg">>),
                                       Join(<<"high", "max">>)}}

StoreNext ==
    \/ yield_record
    \/ yield_raises
    \/ yield_stops
    \/ setup_climate_database
    \/ create_climate_database
    \/ setup_climate_database_interrupted
    \/ create_climate_database_interrupted
    \/ \E s \in AllStations : gen.st = "done" /\ replace_station(s, records)
    \/ replace_station("B", OtherRecords)
    \/ \E params \in Queries : do_query(params)
    \/ str_returns
    \/ \E call \in Aggregates : get_aggregate(call)
    \/ aggregate_returned

StoreSpec == StoreInit /\ [][StoreNext]_vars

---------------------------------------------------------------------------
(* Vocabulary of the properties of the second specification *)

\* The pair of the i-th statistic group, as the spec lists them
PairOf(i) ==
    [stat |-> IF i <= 3 THEN "high" ELSE "low",
     reduction |-> CASE i % 3 = 1 -> "avg" [] i % 3 = 2 -> "max" [] i % 3 = 0 -> "min"]

\* The number a value text reads as, in tenths: its digits
TenthsOf(value_text) == DigitsVal(SelectSeq(value_text, IsDigit))

\* The fields of a date text 'YYYY-MM-DD'
YearOf(date_text) == DigitsVal(SubSeq(date_text, 1, 4))

MonthOf(date_text) == DigitsVal(SubSeq(date_text, 6, 7))

DayOf(date_text) == DigitsVal(SubSeq(date_text, 9, 10))

\* The statistic groups of the reply that have a pair
Groups == 1..Min(Len(reply.smry), 6)

\* The rows of station s are the records of the reply: a refresh has stored it
HoldsReply(s) ==
    /\ gen.st = "done"
    /\ SelectSeq(climate_data, LAMBDA row : row.station_id = s)
           = [j \in 1..Len(records) |-> Row(s, records[j])]

\* The last call was the query of station s for the day of date_text, the
\* pair of group i and the reduction as given or with 'time' after it
Asked(s, date_text, i, suffix) ==
    /\ vt.params # None
    /\ vt.params = [station_id |-> s, month |-> MonthOf(date_text),
                    day |-> DayOf(date_text), obs_type |-> "outTemp",
                    stat |-> PairOf(i).stat,
                    reduction |-> Chars(PairOf(i).reduction) \o suffix]

---------------------------------------------------------------------------
(* C13 *)

\* C13: for every (value_text, date_text) entry of a reply that a refresh has
\* normalized and stored for a station, the resolver, asked for that station,
\* the day of the entry and the pair of its group, returns the number of
\* value_text, and asked with the reduction followed by 'time' it returns the
\* year of date_text when the reduction is max or min.
C13_RoundTrip ==
    \A s \in AllStations : HoldsReply(s) =>
        \A i \in Groups : \A j \in 1..Len(reply.smry[i]) :
            LET value_text == reply.smry[i][j][1]
                date_text == reply.smry[i][j][2]
            IN  /\ Asked(s, date_text, i, <<>>) /\ TenthsOf(value_text) # 0
                       => vt.value = <<TenthsOf(value_text)>>
                /\ Asked(s, date_text, i, time) /\ PairOf(i).reduction # "avg"
                       => vt.value = <<YearOf(date_text)>>

\* The same for the entries whose day no other entry of their group carries
C13_RoundTripOfSingleDays ==
    \A s \in AllStations : HoldsReply(s) =>
        \A i \in Groups : \A j \in 1..Len(reply.smry[i]) :
            LET value_text == reply.smry[i][j][1]
                date_text == reply.smry[i][j][2]
                single == \A k \in 1..Len(reply.smry[i]) :
                              /\ MonthOf(reply.smry[i][k][2]) = MonthOf(date_text)
                              /\ DayOf(reply.smry[i][k][2]) = DayOf(date_text)
                              => k = j
            IN  single =>
                /\ Asked(s, date_text, i, <<>>) /\ TenthsOf(value_text) # 0
                       => vt.value = <<TenthsOf(value_text)>>
                /\ Asked(s, date_text, i, time) /\ PairOf(i).reduction # "avg"
                       => vt.value = <<YearOf(date_text)>>

---------------------------------------------------------------------------
(* C14 *)

\* The value text is the sentinel, in any letter case, in blanks
IsSentinel(value_text, letter) == Upper(Strip(value_text)) = <<letter>>

\* The date text has the form 'YYYY-MM-DD'
IsDateText(date_text) ==
    /\ Len(date_text) = 10
    /\ \A p \in 1..10 : IF p \in {5, 8} THEN date_text[p] = "-" ELSE IsDigit(date_text[p])

\* The entries the generator visits, and the one it stands at
Visited == DayTuples(reply)

\* C14: for every entry the normalizer has worked on: a value text 'M' (any
\* case, in blanks) gives an absent value, 'T' (any case) gives 0.0, a number
\* gives that number, and the normalizer fails (with MalformedValue) only on
\* a text that is neither a number nor a sentinel.
C14_SentinelLaw ==
    /\ \A j \in 1..gen.k :
           LET value_text == Visited[j].day_tuple[1]
           IN  /\ IsSentinel(value_text, "M") => records[j].value = None
               /\ IsSentinel(value_text, "T") => records[j].value = <<0>>
               /\ FloatOk(value_text) => records[j].value = <<TenthsOf(value_text)>>
    /\ gen.st = "raised" /\ ~gen_header_raises(reply) =>
           LET value_text == Visited[gen.k + 1].day_tuple[1]
               date_text == Visited[gen.k + 1].day_tuple[2]
           IN  IsDateText(date_text) =>
                   /\ ~IsSentinel(value_text, "M")
                   /\ ~IsSentinel(value_text, "T")
                   /\ ~FloatOk(value_text)

---------------------------------------------------------------------------
(* C15 *)

\* C15: for every record the normalizer has emitted, the year is absent when
\* the reduction is 'avg', whatever the year of the date text, and is the
\* year of the date text when the reduction is 'max' or 'min'; month and day
\* are those of the date text.
C15_RecordYear ==
    \A j \in 1..gen.k :
        LET date_text == Visited[j].day_tuple[2]
        IN  /\ records[j].reduction = "avg" => records[j].year = None
            /\ records[j].reduction \in {"max", "min"}
                   => records[j].year = <<YearOf(date_text)>>
            /\ records[j].month = <<MonthOf(date_text)>>
            /\ records[j].day = <<DayOf(date_text)>>

\* The normalizer has emitted an average and a maximum of entries dated 1997
C15_AverageAndRecordEmitted ==
    /\ gen.st = "done"
    /\ \E j \in 1..gen.k :
           /\ records[j].reduction = "avg"
           /\ YearOf(Visited[j].day_tuple[2]) = 1997
    /\ \E j \in 1..gen.k :
           /\ records[j].reduction = "max"
           /\ records[j].year = <<1997>>
           /\ records[j].day = <<2>>

---------------------------------------------------------------------------
(* C16 *)

\* C16: a reply whose number of statistic groups differs from the number of
\* expected (statistic, reduction) pairs, six, fails (with SchemaMismatch):
\* the normalizer emits no record of it and does not finish.
C16_SchemaCheck ==
    reply.meta # None /\ Len(reply.smry) # 6 =>
        /\ gen.k = 0
        /\ gen.st # "done"

---------------------------------------------------------------------------
(* C17 *)

\* The element of the query that asks for a pair: maxt is the daily high,
\* mint the daily low, mean the average
ElementOf(pair) ==
    << IF pair.stat = "high" THEN "maxt" ELSE "mint",
       IF pair.reduction = "avg" THEN "mean" ELSE pair.reduction >>

\* C17: for a well-formed reply (six groups of L entries, every entry a value
\* or 'M' with a date) the normalizer emits exactly one record for each group
\* i and entry j, in the order of the groups and then of the entries; the
\* records of group i carry the i-th pair of (high,avg), (high,max),
\* (high,min), (low,avg), (low,max), (low,min), which is the pair the i-th
\* element of the query asks for; so the output has 6 x L records.
C17_PositionalNormalization ==
    gen.st = "done" /\ Len(reply.smry) = 6 =>
        LET L == Len(reply.smry[1])
        IN  /\ Len(records) = 6 * L
            /\ \A i \in 1..6 :
                   /\ acis_struct[i] = ElementOf(PairOf(i))
                   /\ \A j \in 1..L :
                          LET rec == records[(i - 1) * L + j]
                              value_text == reply.smry[i][j][1]
                              date_text == reply.smry[i][j][2]
                          IN  /\ rec.stat = PairOf(i).stat
                              /\ rec.reduction = PairOf(i).reduction
                              /\ rec.month = <<MonthOf(date_text)>>
                              /\ rec.day = <<DayOf(date_text)>>
                              /\ rec.value = IF IsSentinel(value_text, "M") THEN None
                                             ELSE <<TenthsOf(value_text)>>

\* The normalizer has finished a reply of six groups of two entries
C17_SixGroupsNormalized ==
    /\ gen.st = "done"
    /\ Len(reply.smry) = 6
    /\ Len(reply.smry[1]) = 2
    /\ Len(records) = 12

---------------------------------------------------------------------------
(* C18 *)

\* C18: a call of the setup operation (setup_climate_database or
\* create_climate_database) on a database that a completed call has set up
\* raises no error, creates no table, index or metadata row, and leaves the
\* schema and the stored rows as they were.
C18_SetupIdempotence ==
    [][(setup_climate_database \/ create_climate_database) /\ db.exists =>
           /\ db'.error = None
           /\ db'.tables = db.tables
           /\ db'.indexes = db.indexes
           /\ db'.metadata = db.metadata
           /\ climate_data' = climate_data]_vars

\* setup_climate_database has been called again on a database with rows
C18_SecondCallOnStoredRows ==
    /\ db.log = <<"Climate database already exists.">>
    /\ db.error = None
    /\ db.tables = {"climate_data", "station_metadata"}
    /\ climate_data # <<>>

---------------------------------------------------------------------------
(* C19, C20 *)

\* The reduction ends in 'time'
HasSuffix(reduction) ==
    /\ Len(reduction) >= Len(time)
    /\ SubSeq(reduction, Len(reduction) - Len(time) + 1, Len(reduction)) = time

\* The reduction without that suffix
Stem(reduction) ==
    IF HasSuffix(reduction) THEN SubSeq(reduction, 1, Len(reduction) - Len(time))
    ELSE reduction

\* The stored rows of the key the last query asked for
RowsAsked ==
    {n \in 1..Len(climate_data) :
        /\ climate_data[n].station_id = vt.params.station_id
        /\ climate_data[n].month = <<vt.params.month>>
        /\ climate_data[n].day = <<vt.params.day>>
        /\ climate_data[n].obsType = vt.params.obs_type
        /\ climate_data[n].stat = vt.params.stat
        /\ Chars(climate_data[n].reduction) = Stem(vt.params.reduction)}

\* The unit of a temperature in the unit system of a row
TemperatureUnit(row) == IF row.usUnits = 1 THEN <<"degree_F">> ELSE <<"degree_C">>

\* C19: the resolver asks the store for the reduction without its 'time'
\* suffix; when a row is found and the suffix was there (as in 'maxtime') the
\* result is the year of the row, a count; otherwise it is the value of the
\* row, in the unit its unit group has in the unit system stored with the row.
C19_ResolverShape ==
    vt.params # None /\ RowsAsked # {} =>
        /\ ~vt.raised
        /\ \E n \in RowsAsked :
               IF HasSuffix(vt.params.reduction)
               THEN /\ vt.value = climate_data[n].year
                    /\ vt.unit = <<"count">>
                    /\ vt.group = <<"group_count">>
               ELSE /\ vt.value = climate_data[n].value
                    /\ vt.unit = TemperatureUnit(climate_data[n])
                    /\ vt.group = <<"group_temperature">>

\* The record high of a station with metric rows has been resolved
C19_MetricRowResolved ==
    /\ vt.params # None
    /\ vt.params.reduction = <<"m", "a", "x">>
    /\ vt.value = <<140>>
    /\ vt.unit = <<"degree_C">>
    /\ \E n \in 1..Len(climate_data) : climate_data[n].usUnits = 1

\* C20: when no stored row matches the station, day, observation type,
\* statistic and reduction asked for, with or without the 'time' suffix and
\* whatever the name of the observation type, the resolver returns a result
\* whose value, unit and group are all absent, and raises no error.
C20_MissingRow ==
    vt.params # None /\ RowsAsked = {} =>
        /\ ~vt.raised
        /\ vt.value = None
        /\ vt.unit = None
        /\ vt.group = None

\* A value of an observation type without a unit group has been asked for
\* and came back absent
C20_UnknownTypeResolved ==
    /\ vt.params # None
    /\ vt.params.obs_type = "foo"
    /\ ~HasSuffix(vt.params.reduction)
    /\ ~vt.raised
    /\ vt.value = None
    /\ climate_data # <<>>


\* ---------------------------------------------------------------------
\* The aggregate mapper
\* ---------------------------------------------------------------------

\* The words of the aggregation names
StatWords == {"high", "low"}

\* The ten names, by their words
ValueNames ==
    {Join(<<st, w>>) : st \in StatWords, w \in {"avg", "high", "low"}}

YearNames ==
    {Join(<<st, w, "year">>) : st \in StatWords, w \in StatWords}

\* The reduction of the store a word of a name stands for
StoredReduction(w) ==
    CASE w = "avg" -> "avg"
      [] w = "high" -> "max"
      [] w = "low" -> "min"

\* get_aggregate has returned or raised: the call it answered
Aggregated == agg # NoAggregate

AggCall == agg.call[1]

\* The rows of the station of the call for the day a timestamp falls on,
\* with statistic st and the reduction the word w stands for
RowsOn(ts, st, w) ==
    SelectSeq(climate_data,
              LAMBDA row : /\ row.station_id = AggCall.station_id
                           /\ row.month = <<fromtimestamp(ts).month>>
                           /\ row.day = <<fromtimestamp(ts).day>>
                           /\ row.stat = st
                           /\ row.reduction = StoredReduction(w))

RowsOfDay(ts) ==
    SelectSeq(climate_data,
              LAMBDA row : /\ row.station_id = AggCall.station_id
                           /\ row.month = <<fromtimestamp(ts).month>>
                           /\ row.day = <<fromtimestamp(ts).day>>)

Years(rows) == {rows[i].year : i \in DOMAIN rows}

Values(rows) == {rows[i].value : i \in DOMAIN rows}

\* C21: for a name <statistic>_<word>_year on outTemp, get_aggregate
\* returns the year of the stored row with that statistic and reduction max
\* for the word high, min for the word low, of the day timespan.start falls
\* on, whenever the store holds such a row.
C21_YearOfRecord ==
    \A st \in StatWords, w \in StatWords :
        ( /\ Aggregated
          /\ AggCall.obs_type = "outTemp"
          /\ AggCall.aggregate_type = Join(<<st, w, "year">>)
          /\ RowsOn(AggCall.timespan.start, st, w) # <<>> )
        => /\ agg.raised = None
           /\ agg.value \in Years(RowsOn(AggCall.timespan.start, st, w))


\* C22: for a name <statistic>_<word> without _year on outTemp,
\* get_aggregate returns the value of the stored row with that statistic and
\* reduction avg, max or min for the word avg, high or low, of the month and
\* day timespan.start falls on, whatever day the timespan stops on.
C22_ValueOfRecord ==
    \A st \in StatWords, w \in {"avg", "high", "low"} :
        ( /\ Aggregated
          /\ AggCall.obs_type = "outTemp"
          /\ AggCall.aggregate_type = Join(<<st, w>>)
          /\ RowsOn(AggCall.timespan.start, st, w) # <<>> )
        => /\ agg.raised = None
           /\ agg.value \in Values(RowsOn(AggCall.timespan.start, st, w))

\* A value name answered from the day the timespan starts on, the day it
\* stops on holding another value for the same statistic and reduction
C22_ValueOfStartDay ==
    \E st \in StatWords, w \in {"avg", "high", "low"} :
        /\ Aggregated
        /\ AggCall.obs_type = "outTemp"
        /\ AggCall.aggregate_type = Join(<<st, w>>)
        /\ agg.raised = None
        /\ agg.value # None
        /\ agg.value \in Values(RowsOn(AggCall.timespan.start, st, w))
        /\ RowsOn(AggCall.timespan.stop, st, w) # <<>>
        /\ agg.value \notin Values(RowsOn(AggCall.timespan.stop, st, w))

\* C23: get_aggregate raises UnknownAggregation for every name outside the
\* ten, UnknownObservationType for every observation type other than outTemp
\* under one of the ten, and one of the two when both are unknown, each
\* before it has queried the store.
C23_InputValidation ==
    Aggregated =>
        /\ AggCall.aggregate_type \notin ValueNames \cup YearNames
              => agg.raised = <<"UnknownAggregation">>
        /\ ( /\ AggCall.aggregate_type \in ValueNames \cup YearNames
             /\ AggCall.obs_type # "outTemp" )
              => agg.raised = <<"UnknownObservationType">>
        /\ agg.raised \in {<<"UnknownAggregation">>, <<"UnknownObservationType">>}
              => ~agg.queried

\* A name of a store reduction refused although the store holds its row
C23_UnknownNameOnStoredRow ==
    /\ Aggregated
    /\ AggCall.aggregate_type = Join(<<"high", "max">>)
    /\ AggCall.obs_type = "outTemp"
    /\ agg.raised = <<"UnknownAggregation">>
    /\ \E i \in DOMAIN RowsOfDay(AggCall.timespan.start) :
          /\ RowsOfDay(AggCall.timespan.start)[i].stat = "high"
          /\ RowsOfDay(AggCall.timespan.start)[i].reduction = "max"

\* C24: for each of the ten names on outTemp, when the store has no row of
\* the station for the day, get_aggregate returns an absent value and raises
\* nothing.
C24_MissingRow ==
    ( /\ Aggregated
      /\ AggCall.obs_type = "outTemp"
      /\ AggCall.aggregate_type \in ValueNames \cup YearNames
      /\ RowsOfDay(AggCall.timespan.start) = <<>> )
    => /\ agg.raised = None
       /\ agg.value = None


\* ---------------------------------------------------------------------
\* Setup after an interrupted setup
\* ---------------------------------------------------------------------

\* A setup call has created the database and no call has committed tables
Interrupted(d) == d.exists /\ d.tables = {}

\* The data table, its index and the metadata table of each setup
SchemaOfSetup(d) ==
    /\ "climate_data" \in d.tables
    /\ "climate_data_index" \in d.indexes
    /\ "station_metadata" \in d.tables

SchemaOfCreate(d) ==
    /\ "acis_data" \in d.tables
    /\ "acis_data_idx" \in d.indexes
    /\ "acis_data_metadata" \in d.tables

\* C27: after a setup call that created the database and failed before its
\* tables were committed, a setup call that returns normally leaves the data
\* table, its index and the metadata table present.
C27_SetupCompleteness ==
    [][ /\ ( /\ Interrupted(db)
             /\ db' = setup_climate_database_returns(db)
             /\ db'.error = None )
           => SchemaOfSetup(db')
        /\ ( /\ Interrupted(db)
             /\ db' = create_climate_database_returns(db)
             /\ db'.error = None )
           => SchemaOfCreate(db') ]_vars


\* ---------------------------------------------------------------------
\* The stored date across commits
\* ---------------------------------------------------------------------

\* The date text a is no later than the date text b
TextLE(a, b) ==
    \E d1 \in Dates, d2 \in Dates :
        a = isoformat(d1) /\ b = isoformat(d2) /\ DateLE(d1, d2)

\* C26: the stored last-refresh date never decreases: every commit of a
\* refresh task of acis.fetch_data leaves a date that is no earlier than
\* the date stored before it, in whatever order the tasks commit.
C26_DateNeverDecreases ==
    [][ ( /\ service = "ACIS"
          /\ download_date # None
          /\ download_date' # download_date )
        => TextLE(download_date, download_date') ]_vars


\* ---------------------------------------------------------------------
\* Eventual refresh
\* ---------------------------------------------------------------------

\* A trigger has found the data of station s stale for current_date d
StaleAt(s, d) == h.pc = "guard" /\ Current = s /\ h.current_date = d

\* A step in which a fetch, the normalization, the store or the start of a
\* thread fails, or the process is stopped
Fails ==
    \/ \E z \in Objects : fetch_error(z)
    \/ \E z \in Objects : tx_gen_raises(z)
    \/ \E z \in Objects : tx_store_raises(z)
    \/ \E z \in Objects : fetch_station_data_fails(z)
    \/ \E s \in AllStations : GuardStep(s) /\ StartFailed(s) /\ threads' = Dropped(s)
    \/ Restart

\* Triggers keep arriving
TriggersKeepArriving == []<><<new_archive_record>>_vars

\* From some point on nothing fails
FailuresEnd == <>[][~Fails]_vars

\* C25: if triggers keep arriving and from some point on the fetch, the
\* store transaction and the start of a task succeed, every launched task
\* running to its end, then whenever a trigger finds the data of a station
\* stale for its current_date, a refresh eventually commits and the stored
\* last-refresh date is that current_date or later, so that the freshness
\* check of that current_date finds the data current.
C25_EventualRefresh ==
    (TriggersKeepArriving /\ FailuresEnd)
    => \A s \in AllStations, d \in Dates :
          [](StaleAt(s, d) => <>Fresh(Stored(s), d))

\* A trigger of the second day found the data stale, and the refresh it
\* launched has committed the date of that day
C25_RefreshCommitted ==
    \E s \in AllStations :
        /\ \E z \in Tracked(s) : z.st = "done"
        /\ Fresh(Stored(s), today)
        /\ refreshed[s] = today
        /\ today = <<2026, 10, 1>>

===========================================================================
